---- MODULE Spec2Model ----
(***************************************************************************)
(* Model of solve_puzzle (src/solver.py) and parse_board_from_txt          *)
(* (src/visuals.py): a LinkedIn-Queens board is read, a constraint model   *)
(* is posted to the constraint library, the first solution is taken and    *)
(* the remaining solutions are counted.                                    *)
(*                                                                         *)
(* Indices follow the source: rows and columns of a board are 0-based in   *)
(* every (r, c) pair; TLA+ sequences are 1-based, so cell (r, c) of a      *)
(* board is puzzle[r + 1][c + 1].                                          *)
(***************************************************************************)
EXTENDS Integers, Sequences, FiniteSets, TLC

\* Largest board side the inputs are drawn from.
MaxN == 4

(***************************************************************************)
(* Inputs: the boards handed to solve_puzzle.                              *)
(***************************************************************************)

Kinds == {"rows", "cols", "diag", "anti"}

BaseLabel(kind, size, r, c) ==
    CASE kind = "rows" -> r
      [] kind = "cols" -> c
      [] kind = "diag" -> (r + c) % size
      [] OTHER         -> (r - c + size) % size

BaseGrid(kind, size) ==
    [i \in 1..size |-> [j \in 1..size |-> BaseLabel(kind, size, i - 1, j - 1)]]

\* Square boards: a base colouring with one cell given any label 0..size.
SquareGrids ==
    UNION { { [BaseGrid(k, size) EXCEPT ![i][j] = l] :
                 i \in 1..size, j \in 1..size, l \in 0..size } :
            k \in Kinds, size \in 1..MaxN }

DropLastRow(g) == SubSeq(g, 1, Len(g) - 1)
DropLastCol(g) == [i \in 1..Len(g) |-> SubSeq(g[i], 1, Len(g[i]) - 1)]
ShortRow(g) == [g EXCEPT ![Len(g)] = SubSeq(@, 1, Len(@) - 1)]
LongRow(g) == [g EXCEPT ![Len(g)] = Append(@, 0)]

\* Boards that are not square: a row or a column missing, a ragged last row.
DefectGrids ==
    UNION { { DropLastRow(BaseGrid(k, size)), DropLastCol(BaseGrid(k, size)),
              ShortRow(BaseGrid(k, size)), LongRow(BaseGrid(k, size)) } :
            k \in Kinds, size \in 2..MaxN }

\* puzzle_matrix arguments.  The empty list is left out: it makes the code
\* ask the library for a model with no variable, and the source does not say
\* what the library does then.
MatrixInputs == (SquareGrids \cup DefectGrids) \ {<<>>}

\* An empty field of a text line ("1,,2" or a trailing comma).
EmptyField == -1

\* Text files: a line is the sequence of its fields, a blank line is <<>>.
PlainText(g) == g
TrailingBlank(g) == Append(g, <<>>)
LeadingBlank(g) == <<<<>>>> \o g
TrailingComma(g) == IF g = <<>> THEN g ELSE [g EXCEPT ![1] = Append(@, EmptyField)]

FileGrids ==
    {<<>>} \cup DefectGrids \cup { BaseGrid(k, size) : k \in Kinds, size \in 1..MaxN }

TextInputs ==
    UNION { { PlainText(g), TrailingBlank(g), LeadingBlank(g), TrailingComma(g) } :
            g \in FileGrids }

(***************************************************************************)
(* parse_board_from_txt                                                    *)
(***************************************************************************)

\* [str(p) for p in parts if p != ""]
StripParts(line) == SelectSeq(line, LAMBDA p : p # EmptyField)

\* if not line: continue
NonBlank(text) == SelectSeq(text, LAMBDA ln : ln # <<>>)

ParsedRows(text) ==
    [i \in 1..Len(NonBlank(text)) |-> StripParts(NonBlank(text)[i])]

\* len(set(len(r) for r in rows)) != 1
InconsistentRows(rows) ==
    Cardinality({ Len(rows[i]) : i \in 1..Len(rows) }) # 1

(***************************************************************************)
(* get_puzzle_size, get_puzzle_regions                                     *)
(***************************************************************************)

\* solve_puzzle always passes a list (the str branch is not taken): len(puzzle)
get_puzzle_size(puzzle) == Len(puzzle)

\* The cells of the board in the order of the two enumerate loops.
RECURSIVE CellsFrom(_, _)
CellsFrom(puzzle_matrix, i) ==
    IF i > Len(puzzle_matrix) THEN <<>>
    ELSE [j \in 1..Len(puzzle_matrix[i]) |-> <<i - 1, j - 1, puzzle_matrix[i][j]>>]
         \o CellsFrom(puzzle_matrix, i + 1)

\* if val not in regions: regions[val] = [] ; regions[val].append((r, c))
\* The dict is a sequence of entries in insertion order.
\* (RegionsInsertFalsy: the variant `if val:`, which drops the cells labelled 0.)
RegionsInsertFalsy(regs, cell) ==
    IF cell[3] = 0 THEN regs
    ELSE LET at == { k \in 1..Len(regs) : regs[k].key = cell[3] }
         IN  IF at = {}
             THEN Append(regs, [key |-> cell[3], cells |-> <<<<cell[1], cell[2]>>>>])
             ELSE [regs EXCEPT ![CHOOSE k \in at : TRUE].cells =
                                   Append(@, <<cell[1], cell[2]>>)]

RegionsInsert(regs, cell) ==
    LET at == { k \in 1..Len(regs) : regs[k].key = cell[3] }
    IN  IF at = {}
        THEN Append(regs, [key |-> cell[3], cells |-> <<<<cell[1], cell[2]>>>>])
        ELSE [regs EXCEPT ![CHOOSE k \in at : TRUE].cells =
                              Append(@, <<cell[1], cell[2]>>)]

RECURSIVE FoldCells(_, _)
FoldCells(regs, cells) ==
    IF cells = <<>> THEN regs
    ELSE FoldCells(RegionsInsert(regs, Head(cells)), Tail(cells))

get_puzzle_regions(puzzle_matrix) == FoldCells(<<>>, CellsFrom(puzzle_matrix, 1))

(***************************************************************************)
(* The constraint model.  A variable is its domain; it is instantiated     *)
(* when the domain is a singleton.                                         *)
(***************************************************************************)

\* model.intvars(n, 0, n-1)
RootDomains(size) == [i \in 1..size |-> 0..(size - 1)]

IsInstantiated(d) == Cardinality(d) = 1
ValueOf(d) == CHOOSE v \in d : TRUE
LowerBound(d) == CHOOSE v \in d : \A w \in d : v <= w
Abs(x) == IF x < 0 THEN -x ELSE x

\* model.all_different(queen_col): no two instantiated variables are equal.
\* (AllDifferentNeighbours: the variant that compares consecutive rows only.)
AllDifferentNeighbours(q) ==
    \A i \in 1..(Len(q) - 1) :
        (IsInstantiated(q[i]) /\ IsInstantiated(q[i + 1])) => ValueOf(q[i]) # ValueOf(q[i + 1])

AllDifferent(q) ==
    \A i \in 1..Len(q) : \A j \in (i + 1)..Len(q) :
        (IsInstantiated(q[i]) /\ IsInstantiated(q[j])) => ValueOf(q[i]) # ValueOf(q[j])

\* model.distance(queen_col[i], queen_col[i+1], ">", 1)
\* (DistanceTouching: the variant with ">", 0.)
DistanceTouching(q, i) ==
    (IsInstantiated(q[i + 1]) /\ IsInstantiated(q[i + 2]))
        => Abs(ValueOf(q[i + 1]) - ValueOf(q[i + 2])) > 0

Distance(q, i) ==
    (IsInstantiated(q[i + 1]) /\ IsInstantiated(q[i + 2]))
        => Abs(ValueOf(q[i + 1]) - ValueOf(q[i + 2])) > 1

\* cell_has_queen[r][c] reifies queen_col[r] = c; the sum over a region is 1:
\* at most one cell of the region is surely taken, at least one still can be.
\* (RegionSumAtMostOne: the variant with "<=", 1.)
RegionSumAtMostOne(q, region_cells) ==
    Cardinality({ k \in 1..Len(region_cells) :
                    q[region_cells[k][1] + 1] = {region_cells[k][2]} }) <= 1

RegionSum(q, region_cells) ==
    /\ Cardinality({ k \in 1..Len(region_cells) :
                       q[region_cells[k][1] + 1] = {region_cells[k][2]} }) <= 1
    /\ \E k \in 1..Len(region_cells) : region_cells[k][2] \in q[region_cells[k][1] + 1]

\* Every posted constraint is still satisfiable on the instantiated part.
Consistent(q, regs) ==
    /\ AllDifferent(q)
    /\ \A i \in 0..(Len(q) - 2) : Distance(q, i)
    /\ \A k \in 1..Len(regs) : RegionSum(q, regs[k].cells)

\* The source sets no search strategy, so the order in which the library
\* reaches the solutions is the library's.  It is modelled as a depth-first
\* search that branches on the row variable `fst` first and on the others in
\* input order, values ascending; the result is the solutions in that order.
BranchOrder(size, f) ==
    <<f>> \o SelectSeq([i \in 1..size |-> i], LAMBDA i : i # f)

RECURSIVE Search(_, _, _), TryValues(_, _, _, _)
Search(q, regs, order) ==
    IF ~Consistent(q, regs) THEN <<>>
    ELSE IF order = <<>> THEN << [i \in 1..Len(q) |-> ValueOf(q[i])] >>
    ELSE TryValues(q, regs, order, 0)

TryValues(q, regs, order, c) ==
    IF c >= Len(q) THEN <<>>
    ELSE (IF c \in q[Head(order)]
          THEN Search([q EXCEPT ![Head(order)] = {c}], regs, Tail(order))
          ELSE <<>>)
         \o TryValues(q, regs, order, c + 1)

\* A region cell outside the n x n cell_has_queen matrix: IndexError at line 79.
CellOutOfRange(regs, size) ==
    \E k \in 1..Len(regs) : \E m \in 1..Len(regs[k].cells) :
        regs[k].cells[m][1] >= size \/ regs[k].cells[m][2] >= size

(***************************************************************************)
(* State                                                                   *)
(***************************************************************************)
VARIABLES
    via,             \* "file" | "matrix": which argument of solve_puzzle is given
    puzzle_text,     \* contents of the file at puzzle_text_path
    puzzle_matrix,   \* the puzzle_matrix argument
    puzzle,          \* local: the board
    n,               \* local: get_puzzle_size(puzzle)
    regions,         \* local: get_puzzle_regions(puzzle)
    fst,             \* the row variable the library's search branches on first
    solver,          \* the solutions the solver has not reached yet, in its order
    queen_col,       \* the domains of the n column variables
    first_solution,  \* local: list of (r, col) pairs; <<>> until set
    count,           \* local: count
    found,           \* what solver.solve() on line 84 returned (the code drops it)
    pc,              \* position in solve_puzzle
    err,             \* the exception raised, "" when none
    call,            \* 1: first call, 2: a repeated call on the relabelled board
    prev             \* what the first call returned, and the cell lists it posted

vars == <<via, puzzle_text, puzzle_matrix, puzzle, n, regions, fst, solver,
          queen_col, first_solution, count, found, pc, err, call, prev>>

\* regions.values(): the cell lists the region constraints are posted for, in order
RegionCells(regs) == [k \in 1..Len(regs) |-> regs[k].cells]

NoResult == [number_of_solutions |-> 0, queens |-> <<>>, initial_board |-> <<>>,
             region_cells |-> <<>>]

Init ==
    /\ via \in {"file", "matrix"}
    /\ IF via = "file"
       THEN puzzle_text \in TextInputs /\ puzzle_matrix = <<>>
       ELSE puzzle_text = <<>> /\ puzzle_matrix \in MatrixInputs
    /\ puzzle = <<>>
    /\ n = 0
    /\ regions = <<>>
    /\ fst = 1
    /\ solver = <<>>
    /\ queen_col = <<>>
    /\ first_solution = <<>>
    /\ count = 0
    /\ found = FALSE
    /\ pc = "start"
    /\ err = ""
    /\ call = 1
    /\ prev = NoResult

Raise(e) ==
    /\ pc' = "raised"
    /\ err' = e

\* puzzle = vis.parse_board_from_txt(puzzle_text_path)
ParseBoard ==
    /\ pc = "start"
    /\ via = "file"
    /\ IF InconsistentRows(ParsedRows(puzzle_text))
       THEN Raise("ValueError") /\ UNCHANGED puzzle
       ELSE puzzle' = ParsedRows(puzzle_text) /\ pc' = "loaded" /\ UNCHANGED err
    /\ UNCHANGED <<via, puzzle_text, puzzle_matrix, n, regions, fst, solver,
                   queen_col, first_solution, count, found, call, prev>>

\* puzzle = puzzle_matrix
UseMatrix ==
    /\ pc = "start"
    /\ via = "matrix"
    /\ puzzle' = puzzle_matrix
    /\ pc' = "loaded"
    /\ UNCHANGED <<via, puzzle_text, puzzle_matrix, n, regions, fst, solver,
                   queen_col, first_solution, count, found, err, call, prev>>

\* Lines 51-81: size, regions, variables, constraints, get_solver.
BuildModel ==
    /\ pc = "loaded"
    /\ LET size == get_puzzle_size(puzzle)
           regs == get_puzzle_regions(puzzle)
       IN  /\ n' = size
           /\ regions' = regs
           /\ IF CellOutOfRange(regs, size)
              THEN /\ Raise("IndexError")
                   /\ UNCHANGED <<fst, solver, queen_col>>
              ELSE /\ \E f \in (IF call = 1 THEN 1..size ELSE {fst}) :
                        /\ fst' = f
                        /\ solver' = Search(RootDomains(size), regs, BranchOrder(size, f))
                   /\ queen_col' = RootDomains(size)
                   /\ pc' = "solve"
                   /\ UNCHANGED err
    /\ UNCHANGED <<via, puzzle_text, puzzle_matrix, puzzle, first_solution, count,
                   found, call, prev>>

\* [(r, queen_col[r].get_value()) for r in range(n)] on instantiated variables
Queens(q) == [i \in 1..Len(q) |-> <<i - 1, ValueOf(q[i])>>]

\* the same on variables the solver left uninstantiated, when get_value does
\* not check: the lower bound is read
QueensUnchecked(q) == [i \in 1..Len(q) |-> <<i - 1, LowerBound(q[i])>>]

\* Lines 84-88.  The return value of solver.solve() is not looked at.  When
\* there is no solution the variables are not instantiated and get_value is
\* called on them all the same: the library's check raises, or, in a build
\* without that check, the lower bounds are read.
FirstSolve ==
    /\ pc = "solve"
    /\ \/ /\ solver # <<>>
          /\ found' = TRUE
          /\ queen_col' = [i \in 1..n |-> {Head(solver)[i]}]
          /\ solver' = Tail(solver)
          /\ first_solution' = Queens([i \in 1..n |-> {Head(solver)[i]}])
          /\ count' = 1
          /\ pc' = "count"
          /\ UNCHANGED err
       \/ /\ solver = <<>>
          /\ Raise("AssertionError")
          /\ UNCHANGED <<found, queen_col, solver, first_solution, count>>
       \/ /\ solver = <<>>
          /\ found' = FALSE
          /\ first_solution' = QueensUnchecked(queen_col)
          /\ count' = 1
          /\ pc' = "count"
          /\ UNCHANGED <<queen_col, solver, err>>
    /\ UNCHANGED <<via, puzzle_text, puzzle_matrix, puzzle, n, regions, fst, call, prev>>

\* while solver.solve(): count += 1
CountSolve ==
    /\ pc = "count"
    /\ solver # <<>>
    /\ queen_col' = [i \in 1..n |-> {Head(solver)[i]}]
    /\ solver' = Tail(solver)
    /\ count' = count + 1
    /\ UNCHANGED <<via, puzzle_text, puzzle_matrix, puzzle, n, regions, fst,
                   first_solution, found, pc, err, call, prev>>

\* solver.solve() returns False: the loop ends and the dict is returned.
Return ==
    /\ pc = "count"
    /\ solver = <<>>
    /\ queen_col' = RootDomains(n)
    /\ pc' = "returned"
    /\ UNCHANGED <<via, puzzle_text, puzzle_matrix, puzzle, n, regions, fst, solver,
                   first_solution, count, found, err, call, prev>>

\* One-to-one renamings of the region labels 0..MaxN.
Renamings ==
    { [l \in 0..MaxN |-> l],
      [l \in 0..MaxN |-> (l + 1) % (MaxN + 1)],
      [l \in 0..MaxN |-> IF l = 0 THEN 1 ELSE IF l = 1 THEN 0 ELSE l] }

Rename(g, pi) == [i \in 1..Len(g) |-> [j \in 1..Len(g[i]) |-> pi[g[i][j]]]]

\* A caller solves the returned board again, its labels renamed one-to-one.
SecondCall ==
    /\ pc = "returned"
    /\ call = 1
    /\ \E pi \in Renamings : puzzle_matrix' = Rename(puzzle, pi)
    /\ prev' = [number_of_solutions |-> count, queens |-> first_solution,
                initial_board |-> puzzle, region_cells |-> RegionCells(regions)]
    /\ via' = "matrix"
    /\ call' = 2
    /\ pc' = "start"
    /\ puzzle' = <<>>
    /\ n' = 0
    /\ regions' = <<>>
    /\ solver' = <<>>
    /\ queen_col' = <<>>
    /\ first_solution' = <<>>
    /\ count' = 0
    /\ found' = FALSE
    /\ UNCHANGED <<puzzle_text, fst, err>>

Next ==
    \/ ParseBoard
    \/ UseMatrix
    \/ BuildModel
    \/ FirstSolve
    \/ CountSolve
    \/ Return
    \/ SecondCall

Spec == Init /\ [][Next]_vars

(***************************************************************************)
(* The rules of the puzzle, stated on the board's labels.                  *)
(***************************************************************************)

\* A valid board: n >= 1 rows of n labels each.
ValidBoard(g) == Len(g) >= 1 /\ \A i \in 1..Len(g) : Len(g[i]) = Len(g)

\* The grid solve_puzzle is given, as the file's rows or as the matrix.
GivenGrid == IF via = "file" THEN ParsedRows(puzzle_text) ELSE puzzle_matrix

LabelsOf(g) == { g[i][j] : i \in 1..Len(g), j \in 1..Len(g) }

PairwiseDistinct(cols) ==
    \A i \in 1..Len(cols) : \A j \in 1..Len(cols) : i # j => cols[i] # cols[j]

ConsecutiveApart(cols) ==
    \A i \in 1..(Len(cols) - 1) : Abs(cols[i] - cols[i + 1]) > 1

OnePerRegion(cols, g) ==
    \A l \in LabelsOf(g) :
        Cardinality({ i \in 1..Len(cols) : g[i][cols[i] + 1] = l }) = 1

SatisfiesRules(cols, g) ==
    /\ PairwiseDistinct(cols)
    /\ ConsecutiveApart(cols)
    /\ OnePerRegion(cols, g)

\* Every row-to-column assignment of a valid board that satisfies the rules.
Satisfying(g) ==
    { cols \in [1..Len(g) -> 0..(Len(g) - 1)] : SatisfiesRules(cols, g) }

LexLess(s, t) ==
    \E k \in 1..Len(s) : s[k] < t[k] /\ \A j \in 1..(k - 1) : s[j] = t[j]

LexSmallest(S) == CHOOSE s \in S : \A t \in S : t = s \/ LexLess(s, t)

\* The columns of a list of (r, col) pairs, when it names rows 0..n-1 in order.
IsPlacement(queens, g) ==
    /\ Len(queens) = Len(g)
    /\ \A i \in 1..Len(queens) :
           queens[i][1] = i - 1 /\ queens[i][2] \in 0..(Len(g) - 1)

ColsOf(queens) == [i \in 1..Len(queens) |-> queens[i][2]]

Max(a, b) == IF a >= b THEN a ELSE b

\* solver.solve() has been called.
Searched == pc \in {"count", "returned"} \/ err = "AssertionError"

(***************************************************************************)
(* Claims                                                                  *)
(***************************************************************************)

\* C1: on a valid board on which the solver finds a first solution, the
\* returned queens give every row 0..n-1 one column, the columns are
\* pairwise distinct, the columns of consecutive rows differ by more than 1,
\* and every region label has exactly one queen among its cells.
C1_FirstSolutionValid ==
    (pc \in {"count", "returned"} /\ found /\ ValidBoard(puzzle)) =>
        /\ IsPlacement(first_solution, puzzle)
        /\ PairwiseDistinct(ColsOf(first_solution))
        /\ ConsecutiveApart(ColsOf(first_solution))
        /\ OnePerRegion(ColsOf(first_solution), puzzle)

C1_Witness ==
    /\ pc = "returned" /\ call = 1 /\ found /\ ValidBoard(puzzle)
    /\ n = 4 /\ Cardinality(LabelsOf(puzzle)) = 4

\* C2: for every valid board the call returns, and the returned count is the
\* number of row-to-column assignments that satisfy the three rule families.
C2_CountIsTotal ==
    (pc \in {"returned", "raised"} /\ ValidBoard(puzzle)) =>
        (pc = "returned" /\ count = Cardinality(Satisfying(puzzle)))

\* C3: a valid board without a satisfying assignment makes solve return
\* normally, with count 0 and no first solution.
C3_ZeroSolutionResult ==
    (pc \in {"returned", "raised"} /\ ValidBoard(puzzle) /\ Satisfying(puzzle) = {}) =>
        (pc = "returned" /\ count = 0 /\ first_solution = <<>>)

\* C4: a grid that is empty, not square or ragged is rejected before any
\* search step, from a file or as a matrix: the solver is never run on it.
C4_MalformedNeverSearched ==
    ~ValidBoard(GivenGrid) => ~Searched

C7_RelabelInvariant ==
    (call = 2 /\ pc = "returned") =>
        /\ RegionCells(regions) = prev.region_cells
        /\ count = prev.number_of_solutions
        /\ first_solution = prev.queens

C7_Witness ==
    /\ call = 2 /\ pc = "returned" /\ found /\ ValidBoard(puzzle)
    /\ puzzle # prev.initial_board
    /\ count >= 2

\* C8: in every assignment the solver accepts, no two queens, in consecutive
\* rows or not, are at Chebyshev distance 1.
C8_NoTwoTouching ==
    (pc = "count" /\ found) =>
        \A i \in 1..n : \A j \in 1..n :
            i # j => Max(Abs(i - j), Abs(ValueOf(queen_col[i]) - ValueOf(queen_col[j]))) # 1

C8_Witness ==
    /\ pc = "count" /\ found /\ n >= 4 /\ count >= 2

\* C9: on a valid board the call ends by returning a result, whatever the
\* number of solutions: it never ends by raising.
C9_EndsByReturning ==
    ValidBoard(GivenGrid) => pc # "raised"

====
